---- MODULE Spec2Model ----
(***************************************************************************)
(* A model of the NetCDF / Shapefile viewer (GeospatialTool, src/main.py). *)
(*                                                                         *)
(* Names (file paths, dimension names, variable names, list item texts)    *)
(* are sequences of one-character strings, so that the string operations   *)
(* of the program (splitext, lower, split, substring test) are computed    *)
(* rather than assumed.  Arrays are modelled by their shapes: a shape is   *)
(* a sequence of axis lengths.                                             *)
(***************************************************************************)
EXTENDS Integers, Sequences, FiniteSets, TLC

VARIABLES
    disk,           \* the file system: path -> what opening the file yields
    nc_dataset,     \* self.nc_dataset: 0 (None) or a handle (index of handles)
    handles,        \* every netCDF4.Dataset opened so far: [path, isopen]
    history,        \* self.history
    variable_list,  \* the item texts of self.variable_list
    figure,         \* what self.figure holds
    last,           \* the effects of the last operation
    closed,         \* the window was closed (closeEvent accepted)
    request         \* a call of the reducer that a caller is about to make

vars == <<disk, nc_dataset, handles, history, variable_list, figure, last, closed, request>>

None == 0

(***************************************************************************)
(* Bounds of the model.                                                    *)
(***************************************************************************)
\* netCDF4.Dataset objects opened in one session
MaxOpens == 2
\* rank of the generated variables handed to the reducer
MaxRank == 3
\* coordinates of the generated vector bounds lie in -MaxCoord..MaxCoord
MaxCoord == 1

(***************************************************************************)
(* Names.                                                                  *)
(***************************************************************************)
n_time == <<"t", "i", "m", "e">>
n_lat == <<"l", "a", "t">>
n_lon == <<"l", "o", "n">>
n_temp == <<"t", "e", "m", "p">>
n_sst == <<"s", "s", "t">>
n_cov == <<"c", "o", "v">>
n_x == <<"x">>
n_y == <<"y">>
n_sea_temp == <<"s", "e", "a", " ", "t", "e", "m", "p">>
n_Lat == <<"L", "a", "t">>
n_xlat == <<"x", "l", "a", "t">>
n_field == <<"f", "i", "e", "l", "d">>
n_raw == <<"r", "a", "w">>
n_crs == <<"c", "r", "s">>

p_a_nc == <<"a", ".", "n", "c">>
p_b_NC == <<"d", "/", "b", ".", "N", "C">>
p_s_shp == <<"s", ".", "s", "h", "p">>
p_c_txt == <<"c", ".", "t", "x", "t">>
p_g_nc == <<"g", ".", "n", "c">>

(***************************************************************************)
(* Gridded datasets (netCDF4.Dataset): named dimensions with their sizes   *)
(* and an ordered list of variables, each with its tuple of dimension      *)
(* names.  A variable may use the same dimension more than once.           *)
(***************************************************************************)
Variable(name, dimensions) == [name |-> name, dimensions |-> dimensions]

\* var.shape: the sizes of the variable's dimensions, in their order
VarShape(ds, var) == [i \in 1..Len(var.dimensions) |-> ds.dims[var.dimensions[i]]]

\* name in nc_dataset.variables
HasVariable(ds, name) == \E i \in 1..Len(ds.vars) : ds.vars[i].name = name

\* nc_dataset.variables[name], for a name that is present
GetVariable(ds, name) == ds.vars[CHOOSE i \in 1..Len(ds.vars) : ds.vars[i].name = name]

\* a.nc: a 2-D field sst(lat, lon) with its 1-D coordinate variables
DatasetA ==
    [dims |-> (n_lat :> 2) @@ (n_lon :> 3),
     vars |-> << Variable(n_lat, <<n_lat>>),
                 Variable(n_lon, <<n_lon>>),
                 Variable(n_sst, <<n_lat, n_lon>>) >>]

\* b.NC: bare dimensions x, y without coordinate variables, a variable whose
\* name holds a space, and a variable that uses one dimension twice
DatasetB ==
    [dims |-> (n_time :> 1) @@ (n_y :> 2) @@ (n_x :> 2),
     vars |-> << Variable(n_time, <<n_time>>),
                 Variable(n_sea_temp, <<n_y, n_x>>),
                 Variable(n_cov, <<n_time, n_x, n_x>>) >>]

NoDataset == [dims |-> <<>>, vars |-> <<>>]

(***************************************************************************)
(* The effects of one operation, as the caller and the user can see them.  *)
(***************************************************************************)
NoProjection == [kind |-> "none", code |-> 0]
PlateCarree == [kind |-> "PlateCarree", code |-> 0]
Epsg(code) == [kind |-> "epsg", code |-> code]

NoEffects ==
    [op |-> "none",
     err |-> "none",            \* the error message shown, "none" when none was
     unhandled |-> "none",      \* the exception that left the handler, if any
     cleared |-> FALSE,         \* clear_plot() ran
     drawn |-> FALSE,           \* the draw call and canvas.draw() completed
     has_data |-> FALSE,        \* a slice was extracted
     data_shape |-> <<>>,
     has_mesh |-> FALSE,        \* a coordinate mesh was built
     mesh_shape |-> <<>>,
     lon |-> <<>>,              \* the longitude / X array that was resolved
     lat |-> <<>>,              \* the latitude / Y array that was resolved
     loader |-> "none",         \* the loader load_file handed the path to
     cartopy_crs |-> NoProjection,
     note |-> FALSE,            \* the advisory note of the geographic fallback
     extent |-> <<>>,
     extent_crs |-> NoProjection,
     transform |-> NoProjection,
     path |-> <<>>,
     var |-> <<>>,
     dimensions |-> <<>>,
     index_map |-> <<>>,
     x_dim |-> <<>>,
     y_dim |-> <<>>,
     crs |-> [present |-> FALSE, to_epsg |-> "none", code |-> 0, builds |-> FALSE,
              is_geographic |-> FALSE],
     nc_before |-> None,        \* nc_dataset when the operation started
     fail |-> "none"]           \* the step of a load that raised

(***************************************************************************)
(* The Dimension Reducer: plot_high_dim_variable_with_coords.              *)
(***************************************************************************)
\* One integer index into an axis of the given size (netCDF4 follows Python:
\* -size..-1 count from the end, anything else outside 0..size-1 raises).
IndexInRange(index, size) == -size <= index /\ index < size

\* lines 331-336: the dimensions whose entry index_map[dim] raises KeyError
MissingEntries(var, index_map, x_dim, y_dim) ==
    {i \in 1..Len(var.dimensions) :
        /\ var.dimensions[i] # x_dim
        /\ var.dimensions[i] # y_dim
        /\ var.dimensions[i] \notin DOMAIN index_map}

\* lines 331-336: the axes taken in full (slice(None)), in the variable's order
FullAxes(var, x_dim, y_dim) ==
    {i \in 1..Len(var.dimensions) : var.dimensions[i] = x_dim \/ var.dimensions[i] = y_dim}

\* line 338: var[tuple(slice_obj)] raises IndexError
IndexError(ds, var, index_map, x_dim, y_dim) ==
    \E i \in 1..Len(var.dimensions) :
        /\ i \notin FullAxes(var, x_dim, y_dim)
        /\ ~IndexInRange(index_map[var.dimensions[i]], ds.dims[var.dimensions[i]])

RECURSIVE KeepAxes(_, _, _)
\* the lengths shape[i] of the axes i in keep, from axis i on, in order
KeepAxes(shape, keep, i) ==
    IF i > Len(shape) THEN <<>>
    ELSE (IF i \in keep THEN <<shape[i]>> ELSE <<>>) \o KeepAxes(shape, keep, i + 1)

RECURSIVE Reversed(_)
Reversed(q) == IF q = <<>> THEN <<>> ELSE Reversed(Tail(q)) \o <<Head(q)>>

\* a reducer that hands back the kept axes in the opposite order
SliceShapeTransposed(ds, var, x_dim, y_dim) ==
    Reversed(KeepAxes(VarShape(ds, var), FullAxes(var, x_dim, y_dim), 1))

\* line 338: the shape of var[tuple(slice_obj)]: an integer index drops its axis
SliceShape(ds, var, x_dim, y_dim) ==
    KeepAxes(VarShape(ds, var), FullAxes(var, x_dim, y_dim), 1)

\* nc_dataset.variables.get(name)[:].shape, for a name that is present
CoordShape(ds, name) == VarShape(ds, GetVariable(ds, name))

\* np.meshgrid(x, y) of two 1-D arrays: both results have shape (len(y), len(x))
MeshgridShape(x_shape, y_shape) == <<y_shape[1], x_shape[1]>>

\* nc_dataset.variables[name][:]: the array of the variable's elements, each
\* element standing for itself as (name, position); arrays of rank 1 and 2
\* are sequences and sequences of rows, any other rank is kept by shape only
ReadAll(ds, name) ==
    LET shape == CoordShape(ds, name)
    IN IF Len(shape) = 1 THEN [k \in 1..shape[1] |-> <<name, k>>]
       ELSE IF Len(shape) = 2
       THEN [i \in 1..shape[1] |-> [j \in 1..shape[2] |-> <<name, i, j>>]]
       ELSE <<>>

\* np.meshgrid(x, y) of two 1-D arrays (indexing='xy'): the first result
\* repeats x along the rows, the second repeats y along the columns
Meshgrid(x, y) ==
    [X |-> [i \in 1..Len(y) |-> [j \in 1..Len(x) |-> x[j]]],
     Y |-> [i \in 1..Len(y) |-> [j \in 1..Len(x) |-> y[i]]]]

\* pcolormesh(lon, lat, data, shading='auto'): a 1-D X is repeated along the
\* rows and a 1-D Y along the columns; X and Y must then have one shape, that
\* of the data (cell centres) or one longer along both axes (cell corners).
\* Anything else raises TypeError (or ValueError for other ranks).
PcolormeshAccepts(x_shape, y_shape, data_shape) ==
    /\ Len(data_shape) = 2
    /\ Len(x_shape) \in {1, 2}
    /\ Len(y_shape) \in {1, 2}
    /\ LET Nx == x_shape[Len(x_shape)]
           Ny == y_shape[1]
           X == IF Len(x_shape) # 2 \/ x_shape[1] = 1 THEN <<Ny, Nx>> ELSE x_shape
           Y == IF Len(y_shape) # 2 \/ y_shape[2] = 1 THEN <<Ny, Nx>> ELSE y_shape
       IN /\ X = Y
          /\ \/ X = data_shape
             \/ X = <<data_shape[1] + 1, data_shape[2] + 1>>

\* a rank check that lets everything of rank 2 or less through
NotTwoDOnlyAbove(data_shape) == Len(data_shape) > 2

\* line 339: data.ndim != 2
NotTwoD(data_shape) == Len(data_shape) # 2

PlotHighDimArgs(var, index_map, x_dim, y_dim) ==
    [NoEffects EXCEPT !.op = "plot_high_dim_variable_with_coords",
                      !.var = var.name, !.dimensions = var.dimensions,
                      !.index_map = index_map, !.x_dim = x_dim, !.y_dim = y_dim]

\* an alignment that uses whatever is not a pair of 1-D arrays directly
CoordCaseNoMismatch(x_shape, y_shape, data_shape) ==
    IF Len(x_shape) = 1 /\ Len(y_shape) = 1 THEN "meshgrid" ELSE "direct"

\* lines 353-359: how the two coordinate arrays are aligned with the slice
CoordCase(x_shape, y_shape, data_shape) ==
    IF Len(x_shape) = 1 /\ Len(y_shape) = 1 THEN "meshgrid"
    ELSE IF x_shape = data_shape /\ y_shape = data_shape THEN "direct"
    ELSE "mismatch"

plot_high_dim_variable_with_coords(ds, var, index_map, x_dim, y_dim) ==
    LET e0 == PlotHighDimArgs(var, index_map, x_dim, y_dim)
        data_shape == SliceShape(ds, var, x_dim, y_dim)
        e1 == [e0 EXCEPT !.has_data = TRUE, !.data_shape = data_shape]
    IN
    IF MissingEntries(var, index_map, x_dim, y_dim) # {}
    THEN [e0 EXCEPT !.err = "PlotFailed:KeyError"]
    ELSE IF IndexError(ds, var, index_map, x_dim, y_dim)
    THEN [e0 EXCEPT !.err = "PlotFailed:IndexError"]
    ELSE IF NotTwoD(data_shape)
    THEN [e1 EXCEPT !.err = "ShapeError"]
    ELSE IF ~HasVariable(ds, x_dim) \/ ~HasVariable(ds, y_dim)
    THEN [e1 EXCEPT !.err = "CoordinatesNotFound"]
    ELSE
    LET x_shape == CoordShape(ds, x_dim)
        y_shape == CoordShape(ds, y_dim)
        case == CoordCase(x_shape, y_shape, data_shape)
        x == ReadAll(ds, x_dim)
        y == ReadAll(ds, y_dim)
        mesh_shape == IF case = "meshgrid" THEN MeshgridShape(x_shape, y_shape) ELSE x_shape
        e2 == [e1 EXCEPT !.has_mesh = TRUE, !.mesh_shape = mesh_shape,
                         !.lon = IF case = "meshgrid" THEN Meshgrid(x, y).X ELSE x,
                         !.lat = IF case = "meshgrid" THEN Meshgrid(x, y).Y ELSE y,
                         !.cleared = TRUE,
                         !.extent_crs = PlateCarree, !.transform = PlateCarree]
    IN
    IF case = "mismatch"
    THEN [e1 EXCEPT !.err = "CoordinateMismatch"]
    ELSE IF ~PcolormeshAccepts(mesh_shape, mesh_shape, data_shape)
    THEN [e2 EXCEPT !.err = "PlotFailed:TypeError"]
    ELSE [e2 EXCEPT !.drawn = TRUE]

(***************************************************************************)
(* The Coordinate Resolver: find_nc_coords, and plot_nc_variable.          *)
(***************************************************************************)
LowerChar(c) ==
    CASE c = "A" -> "a" [] c = "C" -> "c" [] c = "H" -> "h" [] c = "L" -> "l"
      [] c = "N" -> "n" [] c = "O" -> "o" [] c = "P" -> "p" [] c = "S" -> "s"
      [] c = "T" -> "t" [] c = "X" -> "x" [] c = "Y" -> "y"
      [] OTHER -> c

\* str.lower()
Lower(s) == [i \in 1..Len(s) |-> LowerChar(s[i])]

\* sub in s
Contains(s, sub) ==
    \E k \in 0..(Len(s) - Len(sub)) : SubSeq(s, k + 1, k + Len(sub)) = sub

possible_lon_names ==
    { <<"l", "o", "n">>, <<"l", "o", "n", "g", "i", "t", "u", "d", "e">>, <<"x">> }

possible_lat_names ==
    { <<"l", "a", "t">>, <<"l", "a", "t", "i", "t", "u", "d", "e">>, <<"y">> }

\* lines 388 and 391: some pattern of the role occurs in dim_name.lower() and a
\* variable named dim_name exists
RoleHit(ds, dim_name, names) ==
    /\ \E name \in names : Contains(Lower(dim_name), name)
    /\ HasVariable(ds, dim_name)

RECURSIVE FindLoopFirst(_, _, _, _)
\* a loop that keeps the first dimension it bound to a role
FindLoopFirst(ds, dimensions, i, found) ==
    IF i > Len(dimensions) THEN found
    ELSE LET dim_name == dimensions[i]
             lon == IF found.lon = <<>> /\ RoleHit(ds, dim_name, possible_lon_names)
                    THEN dim_name ELSE found.lon
             lat == IF found.lat = <<>> /\ RoleHit(ds, dim_name, possible_lat_names)
                    THEN dim_name ELSE found.lat
         IN FindLoopFirst(ds, dimensions, i + 1, [lon |-> lon, lat |-> lat])

RECURSIVE FindLoop(_, _, _, _)
\* lines 386-392: the loop over var.dimensions from position i on; found holds
\* the names of the variables bound to lon and lat so far (<<>> when unbound:
\* lon, lat are None)
FindLoop(ds, dimensions, i, found) ==
    IF i > Len(dimensions) THEN found
    ELSE LET dim_name == dimensions[i]
             lon == IF RoleHit(ds, dim_name, possible_lon_names) THEN dim_name ELSE found.lon
             lat == IF RoleHit(ds, dim_name, possible_lat_names) THEN dim_name ELSE found.lat
         IN FindLoop(ds, dimensions, i + 1, [lon |-> lon, lat |-> lat])

\* lines 382-395: find_nc_coords
find_nc_coords(ds, var) ==
    LET found == FindLoop(ds, var.dimensions, 1, [lon |-> <<>>, lat |-> <<>>])
        lon_found == found.lon # <<>>
        lat_found == found.lat # <<>>
        lon_dim == found.lon
        lat_dim == found.lat
        lon_shape == IF lon_found THEN CoordShape(ds, lon_dim) ELSE <<>>
        lat_shape == IF lat_found THEN CoordShape(ds, lat_dim) ELSE <<>>
        lon == IF lon_found THEN ReadAll(ds, lon_dim) ELSE <<>>
        lat == IF lat_found THEN ReadAll(ds, lat_dim) ELSE <<>>
        meshed == lon_found /\ lat_found /\ Len(lon_shape) = 1 /\ Len(lat_shape) = 1
    IN [lon_found |-> lon_found, lat_found |-> lat_found,
        lon_dim |-> lon_dim, lat_dim |-> lat_dim, meshed |-> meshed,
        lon |-> IF meshed THEN Meshgrid(lon, lat).X ELSE lon,
        lat |-> IF meshed THEN Meshgrid(lon, lat).Y ELSE lat,
        lon_shape |-> IF meshed THEN MeshgridShape(lon_shape, lat_shape) ELSE lon_shape,
        lat_shape |-> IF meshed THEN MeshgridShape(lon_shape, lat_shape) ELSE lat_shape]

\* np.squeeze: the axes of length 1 are dropped
Squeeze(shape) == KeepAxes(shape, {i \in 1..Len(shape) : shape[i] # 1}, 1)

\* lines 296-326: plot_nc_variable
plot_nc_variable(ds, var_name) ==
    LET e0 == [NoEffects EXCEPT !.op = "plot_nc_variable", !.var = var_name]
    IN
    IF ~HasVariable(ds, var_name)
    THEN [e0 EXCEPT !.err = "PlotFailed:KeyError"]
    ELSE
    LET var == GetVariable(ds, var_name)
        full == VarShape(ds, var)
        data_shape == IF Len(full) > 2 THEN Squeeze(full) ELSE full
        c == find_nc_coords(ds, var)
        e1 == [e0 EXCEPT !.dimensions = var.dimensions, !.has_data = TRUE,
                         !.data_shape = data_shape]
        e2 == [e1 EXCEPT !.x_dim = c.lon_dim, !.y_dim = c.lat_dim,
                         !.has_mesh = c.meshed, !.mesh_shape = c.lon_shape,
                         !.lon = c.lon, !.lat = c.lat]
        e3 == [e2 EXCEPT !.cleared = TRUE, !.transform = PlateCarree]
    IN
    IF Len(data_shape) # 2
    THEN [e1 EXCEPT !.err = "ShapeError"]
    ELSE IF ~c.lon_found \/ ~c.lat_found
    THEN [e2 EXCEPT !.err = "CoordinatesNotFound"]
    ELSE IF ~PcolormeshAccepts(c.lon_shape, c.lat_shape, data_shape)
    THEN [e3 EXCEPT !.err = "PlotFailed:TypeError"]
    ELSE [e3 EXCEPT !.drawn = TRUE]

(***************************************************************************)
(* The CRS Reconciler: plot_shp_data.                                      *)
(*                                                                         *)
(* A CRS descriptor (gdf.crs) is absent (None) or present; a present one   *)
(* answers to_epsg() by raising, by None or by a code, lets cartopy build  *)
(* a projection from that code or not (ccrs.epsg raises), and is either    *)
(* geographic or projected.                                                *)
(***************************************************************************)
NoCRS == [present |-> FALSE, to_epsg |-> "none", code |-> 0, builds |-> FALSE,
          is_geographic |-> FALSE]

CRS(to_epsg, code, builds, is_geographic) ==
    [present |-> TRUE, to_epsg |-> to_epsg, code |-> code, builds |-> builds,
     is_geographic |-> is_geographic]

EpsgCodes == {4326, 32633}

CRSDescriptors ==
    {NoCRS}
    \cup {CRS("raises", 0, FALSE, g) : g \in BOOLEAN}
    \cup {CRS("none", 0, FALSE, g) : g \in BOOLEAN}
    \cup {CRS("code", c, b, g) : c \in EpsgCodes, b \in BOOLEAN, g \in BOOLEAN}

GeoDataFrame(crs, total_bounds) == [crs |-> crs, total_bounds |-> total_bounds]

\* lines 406-410: the try block raises (to_epsg() itself, or ccrs.epsg(epsg))
EpsgRaises(crs) ==
    \/ crs.to_epsg = "raises"
    \/ crs.to_epsg = "code" /\ crs.code # 0 /\ ~crs.builds

\* a chain that tries the geographic fallback before the EPSG code
ResolveCRSGeographicFirst(crs) ==
    IF ~crs.present THEN NoProjection
    ELSE IF crs.is_geographic THEN PlateCarree
    ELSE IF crs.to_epsg = "code" /\ crs.code # 0 /\ crs.builds THEN Epsg(crs.code)
    ELSE NoProjection

\* lines 401-420: cartopy_crs when the CRS block is left
ResolveCRS(crs) ==
    IF ~crs.present THEN NoProjection
    ELSE IF EpsgRaises(crs)
         THEN (IF crs.is_geographic THEN PlateCarree ELSE NoProjection)
         ELSE IF crs.to_epsg = "code" /\ crs.code # 0 THEN Epsg(crs.code)
         ELSE NoProjection

\* an extent that passes total_bounds on in its own order
ExtentOfUnordered(total_bounds) == total_bounds

\* line 433-436: the list handed to set_extent
ExtentOf(total_bounds) ==
    LET minx == total_bounds[1]
        miny == total_bounds[2]
        maxx == total_bounds[3]
        maxy == total_bounds[4]
    IN <<minx, maxx, miny, maxy>>

plot_shp_data(gdf) ==
    LET source_crs == gdf.crs
        cartopy_crs == ResolveCRS(source_crs)
        e0 == [NoEffects EXCEPT !.op = "plot_shp_data", !.crs = source_crs, !.cleared = TRUE]
        e1 == [e0 EXCEPT !.cartopy_crs = cartopy_crs,
                         !.note = source_crs.present /\ EpsgRaises(source_crs)
                                  /\ source_crs.is_geographic]
    IN
    IF source_crs.present /\ EpsgRaises(source_crs) /\ ~source_crs.is_geographic
    THEN [e0 EXCEPT !.err = "UnsupportedProjected"]
    ELSE IF cartopy_crs = NoProjection
    THEN [e1 EXCEPT !.err = "MissingCRS"]
    ELSE [e1 EXCEPT !.extent = ExtentOf(gdf.total_bounds),
                    !.extent_crs = cartopy_crs,
                    !.transform = cartopy_crs,
                    !.drawn = TRUE]

(***************************************************************************)
(* The window: file dispatch, the variable list, the selection dialog.     *)
(***************************************************************************)
\* str.rfind, 1-based, 0 when the character does not occur
RFind(s, c) ==
    IF \E i \in 1..Len(s) : s[i] = c
    THEN CHOOSE i \in 1..Len(s) : s[i] = c /\ \A j \in (i + 1)..Len(s) : s[j] # c
    ELSE 0

\* os.path.splitext(p)[1]: from the last dot of the last path component on,
\* unless only dots precede that dot in the component
splitext(p) ==
    LET sepIndex == RFind(p, "/")
        dotIndex == RFind(p, ".")
    IN IF dotIndex > sepIndex /\ \E k \in (sepIndex + 1)..(dotIndex - 1) : p[k] # "."
       THEN SubSeq(p, dotIndex, Len(p))
       ELSE <<>>

ext_nc == <<".", "n", "c">>
ext_shp == <<".", "s", "h", "p">>

\* a dispatch that compares the extension as it is spelled
ExtensionAsSpelled(filepath) == splitext(filepath)

\* lines 232-235: ext.lower(), the key load_file dispatches on
Extension(filepath) == Lower(splitext(filepath))

RECURSIVE TupleItems(_, _)
\* the items of repr(tuple), from item i on: "2, 3"
TupleItems(shape, i) ==
    IF i > Len(shape) THEN <<>>
    ELSE <<ToString(shape[i])>>
         \o (IF i < Len(shape) THEN <<",", " ">> ELSE <<>>)
         \o TupleItems(shape, i + 1)

\* repr of a tuple of integers: "()", "(2,)", "(2, 3)"
TupleRepr(shape) ==
    <<"(">> \o TupleItems(shape, 1) \o (IF Len(shape) = 1 THEN <<",">> ELSE <<>>) \o <<")">>

\* line 292: f"{var_name} {var.shape}"
ItemText(var_name, shape) == var_name \o <<" ">> \o TupleRepr(shape)

\* line 215: item.text().split(' ')[0]
FirstToken(text) ==
    IF \E i \in 1..Len(text) : text[i] = " "
    THEN SubSeq(text, 1, (CHOOSE i \in 1..Len(text) :
                             text[i] = " " /\ \A j \in 1..(i - 1) : text[j] # " ") - 1)
    ELSE text

\* a filter that lets 1-D variables through as well
IsPlottableFromRankOne(shape) == Len(shape) >= 1

\* line 291: len(var.shape) >= 2
IsPlottable(shape) == Len(shape) >= 2

RECURSIVE PlottableItems(_, _)
\* lines 290-294: one item per variable of rank >= 2, in the dataset's order
PlottableItems(ds, i) ==
    IF i > Len(ds.vars) THEN <<>>
    ELSE (IF IsPlottable(VarShape(ds, ds.vars[i]))
          THEN <<ItemText(ds.vars[i].name, VarShape(ds, ds.vars[i]))>>
          ELSE <<>>) \o PlottableItems(ds, i + 1)

populate_variable_list(ds) == PlottableItems(ds, 1)

\* DimensionSelectorDialog: one index combo per dimension name, holding
\* 0..size-1, and two axis combos holding the variable's dimensions
DialogSelections(ds, var) ==
    LET dimset == {var.dimensions[i] : i \in 1..Len(var.dimensions)}
        largest == CHOOSE n \in {ds.dims[d] : d \in dimset} :
                       \A d \in dimset : ds.dims[d] <= n
    IN {[index_map |-> m, x_dim |-> x, y_dim |-> y] :
            m \in {f \in [dimset -> 0..(largest - 1)] : \A d \in dimset : f[d] < ds.dims[d]},
            x \in dimset, y \in dimset}

NoRequest == [pending |-> FALSE, var |-> <<>>, index_map |-> <<>>, x_dim |-> <<>>,
              y_dim |-> <<>>]

(***************************************************************************)
(* The session.                                                            *)
(***************************************************************************)
\* what reading a path yields: a gridded dataset, a vector dataset, or neither
NcFile(ds) == [ds |-> ds, gdf |-> GeoDataFrame(NoCRS, <<0, 0, 0, 0>>)]
ShpFile(gdf) == [ds |-> NoDataset, gdf |-> gdf]

\* the dataset behind a handle
DatasetOf(h) == disk[handles[h].path].ds

\* the handles that are open
OpenHandles == {h \in 1..Len(handles) : handles[h].isopen}

\* Dataset.close()
Close(hs, h) == [hs EXCEPT ![h].isopen = FALSE]

\* what the figure holds after an operation with effects e
FigureAfter(fig, e) ==
    IF e.drawn THEN e.op
    ELSE IF e.cleared
         THEN (IF e.err = "PlotFailed:TypeError" THEN "axes" ELSE "blank")
         ELSE fig

\* a load that forgets line 256 keeps whatever nc_dataset held when it raised
ReferenceAfterLoadKept(fail, old, new) ==
    IF fail = "none" THEN new ELSE IF fail = "open" THEN old ELSE new

\* lines 249 and 256: self.nc_dataset when load_nc_file returns
ReferenceAfterLoad(fail, old, new) == IF fail = "none" THEN new ELSE None

\* lines 245-256: load_nc_file; fail names the step that raises, if any
load_nc_file(filepath, fail) ==
    LET closed_old == IF nc_dataset # None THEN Close(handles, nc_dataset) ELSE handles
        opened == Append(closed_old, [path |-> filepath, isopen |-> TRUE])
    IN
    /\ fail \in {"none", "open", "metadata", "populate"}
    /\ fail # "open" => Len(handles) < MaxOpens
    /\ handles' = IF fail = "open" THEN closed_old ELSE opened
    /\ nc_dataset' = ReferenceAfterLoad(fail, nc_dataset, Len(opened))
    /\ variable_list' = IF fail = "none" THEN populate_variable_list(disk[filepath].ds)
                        ELSE <<>>
    /\ figure' = "blank"
    /\ last' = [NoEffects EXCEPT !.op = "load_file", !.path = filepath, !.cleared = TRUE,
                                 !.loader = "load_nc_file",
                                 !.nc_before = nc_dataset, !.fail = fail,
                                 !.err = IF fail = "none" THEN "none" ELSE "OpenFailure"]

\* lines 258-269: load_shp_file
load_shp_file(filepath, fail) ==
    LET e == plot_shp_data(disk[filepath].gdf)
    IN
    /\ fail \in {"none", "open"}
    /\ UNCHANGED <<handles, nc_dataset>>
    /\ variable_list' = <<>>
    /\ figure' = IF fail = "open" THEN "blank"
                 ELSE FigureAfter("blank", e)
    /\ last' = IF fail = "open"
               THEN [NoEffects EXCEPT !.op = "load_file", !.path = filepath, !.cleared = TRUE,
                                      !.loader = "load_shp_file",
                                      !.nc_before = nc_dataset, !.fail = fail,
                                      !.err = "OpenFailure"]
               ELSE [e EXCEPT !.op = "load_file", !.path = filepath,
                              !.loader = "load_shp_file",
                              !.nc_before = nc_dataset]

\* lines 227-243: load_file
LoadFile(filepath) ==
    LET ext == Extension(filepath)
    IN
    /\ ~closed
    /\ IF ext = ext_nc
       THEN \E fail \in {"none", "open", "metadata", "populate"} :
                /\ disk[filepath].ds = NoDataset => fail = "open"
                /\ load_nc_file(filepath, fail)
       ELSE IF ext = ext_shp
       THEN \E fail \in {"none", "open"} : load_shp_file(filepath, fail)
       ELSE /\ UNCHANGED <<handles, nc_dataset>>
            /\ variable_list' = <<>>
            /\ figure' = "blank"
            /\ last' = [NoEffects EXCEPT !.op = "load_file", !.path = filepath,
                                         !.cleared = TRUE, !.nc_before = nc_dataset,
                                         !.err = "UnsupportedFormat"]
    /\ history' = IF (ext = ext_nc \/ ext = ext_shp)
                     /\ \A i \in 1..Len(history) : history[i] # filepath
                  THEN Append(history, filepath)
                  ELSE history
    /\ UNCHANGED <<disk, closed, request>>

\* lines 213-223: on_variable_selected
OnVariableSelected(item) ==
    /\ ~closed
    /\ nc_dataset # None
    /\ LET ds == DatasetOf(nc_dataset)
           variable_name == FirstToken(variable_list[item])
       IN IF ~HasVariable(ds, variable_name)
          THEN /\ last' = [NoEffects EXCEPT !.op = "on_variable_selected",
                                            !.var = variable_name,
                                            !.unhandled = "KeyError"]
               /\ UNCHANGED figure
          ELSE LET var == GetVariable(ds, variable_name)
               IN IF Len(var.dimensions) > 2
                  THEN \E sel \in DialogSelections(ds, var) :
                          LET e == plot_high_dim_variable_with_coords(
                                       ds, var, sel.index_map, sel.x_dim, sel.y_dim)
                          IN /\ last' = e
                             /\ figure' = FigureAfter(figure, e)
                  ELSE LET e == plot_nc_variable(ds, variable_name)
                       IN /\ last' = e
                          /\ figure' = FigureAfter(figure, e)
    /\ UNCHANGED <<disk, nc_dataset, handles, history, variable_list, closed, request>>

\* a display_history that leaves the variable list as it is
DisplayHistoryKeepsList ==
    /\ ~closed
    /\ figure' = "blank"
    /\ last' = [NoEffects EXCEPT !.op = "display_history", !.cleared = TRUE]
    /\ UNCHANGED <<disk, nc_dataset, handles, history, variable_list, closed, request>>

\* lines 453-463: display_history
DisplayHistory ==
    /\ ~closed
    /\ variable_list' = <<>>
    /\ figure' = "blank"
    /\ last' = [NoEffects EXCEPT !.op = "display_history", !.cleared = TRUE]
    /\ UNCHANGED <<disk, nc_dataset, handles, history, closed, request>>

\* lines 481-483: closeEvent
CloseEvent ==
    /\ ~closed
    /\ handles' = IF nc_dataset # None THEN Close(handles, nc_dataset) ELSE handles
    /\ closed' = TRUE
    /\ last' = [NoEffects EXCEPT !.op = "closeEvent", !.nc_before = nc_dataset]
    /\ UNCHANGED <<disk, nc_dataset, history, variable_list, figure, request>>

\* The collector finalizes a Dataset that nothing refers to any more: the
\* program itself never closes a handle it dropped at line 256.
Finalize ==
    /\ \E h \in OpenHandles :
          /\ h # nc_dataset
          /\ handles' = Close(handles, h)
    /\ UNCHANGED <<disk, nc_dataset, history, variable_list, figure, last, closed, request>>

SessionDisk ==
    (p_a_nc :> NcFile(DatasetA))
    @@ (p_b_NC :> NcFile(DatasetB))
    @@ (p_s_shp :> ShpFile(GeoDataFrame(CRS("code", 4326, FALSE, TRUE), <<-1, 0, 1, 1>>)))
    @@ (p_c_txt :> ShpFile(GeoDataFrame(NoCRS, <<0, 0, 0, 0>>)))

\* __init__: no dataset, an empty figure, the history as loaded
Init ==
    /\ disk = SessionDisk
    /\ nc_dataset = None
    /\ handles = <<>>
    /\ history = <<>>
    /\ variable_list = <<>>
    /\ figure = "blank"
    /\ last = NoEffects
    /\ closed = FALSE
    /\ request = NoRequest

Next ==
    \/ \E filepath \in DOMAIN disk : LoadFile(filepath)
    \/ \E item \in 1..Len(variable_list) : OnVariableSelected(item)
    \/ DisplayHistory
    \/ CloseEvent
    \/ Finalize

Spec == Init /\ [][Next]_vars

(***************************************************************************)
(* The reducer on its own: a dataset of the family below is open, and      *)
(* plot_high_dim_variable_with_coords is called with any selection, the    *)
(* ones the dialog cannot produce included.                                *)
(***************************************************************************)
GenDims == (n_time :> 2) @@ (n_lat :> 1) @@ (n_lon :> 2)

GenDimNames == DOMAIN GenDims

\* the dimension tuples of the data variable: every tuple of 3..MaxRank names
VarDimSeqs == UNION {[1..r -> GenDimNames] : r \in 3..MaxRank}

\* time(time), lat(lat), lon(lon) and the data variable temp
GenDataset(dimensions) ==
    [dims |-> GenDims,
     vars |-> << Variable(n_time, <<n_time>>),
                 Variable(n_lat, <<n_lat>>),
                 Variable(n_lon, <<n_lon>>),
                 Variable(n_temp, dimensions) >>]

\* index maps over any subset of the names, each index from one below the
\* valid range (negatives included) to one above it
IndexMaps ==
    UNION {{m \in [D -> -3..2] : \A d \in D : -(GenDims[d] + 1) <= m[d] /\ m[d] <= GenDims[d]} :
             D \in SUBSET GenDimNames}

\* the state after load_file(g.nc) succeeded on a fresh window, with a caller
\* about to hand a selection to the reducer
InitReduce ==
    /\ \E dimensions \in VarDimSeqs : disk = (p_g_nc :> NcFile(GenDataset(dimensions)))
    /\ nc_dataset = 1
    /\ handles = << [path |-> p_g_nc, isopen |-> TRUE] >>
    /\ history = << p_g_nc >>
    /\ variable_list = populate_variable_list(disk[p_g_nc].ds)
    /\ figure = "blank"
    /\ last = [NoEffects EXCEPT !.op = "load_file", !.path = p_g_nc, !.cleared = TRUE,
                                !.loader = "load_nc_file"]
    /\ closed = FALSE
    /\ \E index_map \in IndexMaps, x_dim \in GenDimNames, y_dim \in GenDimNames :
          request = [pending |-> TRUE, var |-> n_temp, index_map |-> index_map,
                     x_dim |-> x_dim, y_dim |-> y_dim]

\* the pending call of plot_high_dim_variable_with_coords, on a variable of
\* rank > 2 of the open dataset
PlotHighDimCall ==
    /\ ~closed
    /\ nc_dataset # None
    /\ request.pending
    /\ LET ds == DatasetOf(nc_dataset)
           var == GetVariable(ds, request.var)
           e == plot_high_dim_variable_with_coords(
                    ds, var, request.index_map, request.x_dim, request.y_dim)
       IN /\ Len(var.dimensions) > 2
          /\ last' = e
          /\ figure' = FigureAfter(figure, e)
    /\ request' = NoRequest
    /\ UNCHANGED <<disk, nc_dataset, handles, history, variable_list, closed>>

NextReduce == PlotHighDimCall

SpecReduce == InitReduce /\ [][NextReduce]_vars

(***************************************************************************)
(* The coordinate resolver in a session: a gridded file of the family      *)
(* below is loaded and its listed variables are selected.  The file holds  *)
(* a 2-D variable field over any two of four dimensions, a coordinate      *)
(* variable for each of them (absent or 1-D, for Lat and lon also 2-D      *)
(* over Lat and lon), a 2-D variable raw over the bare dimensions y and x, *)
(* and a scalar crs.                                                       *)
(***************************************************************************)
ResolveDims ==
    (n_Lat :> 2) @@ (n_lon :> 3) @@ (n_xlat :> 2) @@ (n_time :> 1)
    @@ (n_y :> 2) @@ (n_x :> 2)

\* the dimensions field is defined over; xlat matches both roles
ResolveDimNames == {n_Lat, n_lon, n_xlat, n_time}

CoordKinds == {"absent", "1-D", "2-D"}

\* the kinds of the coordinate variable of dimension d in the family
KindsOf(d) == IF d \in {n_Lat, n_lon} THEN CoordKinds ELSE {"absent", "1-D"}

\* the variable named after dimension d, of the given kind: none, d(d),
\* d(Lat, lon), d(lon, Lat) or a scalar
CoordVariable(d, kind) ==
    IF kind = "absent" THEN <<>>
    ELSE IF kind = "1-D" THEN << Variable(d, <<d>>) >>
    ELSE IF kind = "2-D" THEN << Variable(d, <<n_Lat, n_lon>>) >>
    ELSE IF kind = "2-D transposed" THEN << Variable(d, <<n_lon, n_Lat>>) >>
    ELSE << Variable(d, <<>>) >>

ResolveDataset(kinds, dimensions) ==
    [dims |-> ResolveDims,
     vars |-> << Variable(n_crs, <<>>) >>
              \o CoordVariable(n_time, kinds[n_time])
              \o CoordVariable(n_Lat, kinds[n_Lat])
              \o CoordVariable(n_lon, kinds[n_lon])
              \o << Variable(n_field, dimensions) >>
              \o CoordVariable(n_xlat, kinds[n_xlat])
              \o << Variable(n_raw, <<n_y, n_x>>) >>]

\* __init__, with g.nc on the disk
InitResolve ==
    /\ \E kinds \in {k \in [ResolveDimNames -> CoordKinds] :
                          \A d \in ResolveDimNames : k[d] \in KindsOf(d)},
          dimensions \in [1..2 -> ResolveDimNames] :
          disk = (p_g_nc :> NcFile(ResolveDataset(kinds, dimensions)))
    /\ nc_dataset = None
    /\ handles = <<>>
    /\ history = <<>>
    /\ variable_list = <<>>
    /\ figure = "blank"
    /\ last = NoEffects
    /\ closed = FALSE
    /\ request = NoRequest

NextResolve ==
    \/ LoadFile(p_g_nc)
    \/ \E item \in 1..Len(variable_list) : OnVariableSelected(item)

SpecResolve == InitResolve /\ [][NextResolve]_vars

(***************************************************************************)
(* The selection dialog and the reducer in a session: a gridded file with  *)
(* temp(time, Lat, lon) and coordinate variables of any kind for Lat and   *)
(* lon is loaded, temp is selected and the dialog is accepted with any of  *)
(* the values it offers.                                                   *)
(***************************************************************************)
AlignKinds == CoordKinds \cup {"2-D transposed", "0-D"}

DialogDims == (n_time :> 1) @@ (n_Lat :> 1) @@ (n_lon :> 2)

DialogDataset(lat_kind, lon_kind) ==
    [dims |-> DialogDims,
     vars |-> << Variable(n_time, <<n_time>>) >>
              \o CoordVariable(n_Lat, lat_kind)
              \o CoordVariable(n_lon, lon_kind)
              \o << Variable(n_temp, <<n_time, n_Lat, n_lon>>) >>]

\* __init__, with g.nc on the disk
InitDialog ==
    /\ \E lat_kind \in AlignKinds, lon_kind \in AlignKinds :
          disk = (p_g_nc :> NcFile(DialogDataset(lat_kind, lon_kind)))
    /\ nc_dataset = None
    /\ handles = <<>>
    /\ history = <<>>
    /\ variable_list = <<>>
    /\ figure = "blank"
    /\ last = NoEffects
    /\ closed = FALSE
    /\ request = NoRequest

NextDialog ==
    \/ LoadFile(p_g_nc)
    \/ \E item \in 1..Len(variable_list) : OnVariableSelected(item)

SpecDialog == InitDialog /\ [][NextDialog]_vars

(***************************************************************************)
(* The CRS reconciler on its own: a vector file with any CRS descriptor    *)
(* and any bounds is loaded.                                               *)
(***************************************************************************)
Coords == -MaxCoord..MaxCoord

\* gdf.total_bounds: (minx, miny, maxx, maxy)
TotalBounds ==
    {b \in Coords \X Coords \X Coords \X Coords : b[1] <= b[3] /\ b[2] <= b[4]}

InitCRS ==
    /\ \E crs \in CRSDescriptors, b \in TotalBounds :
          disk = (p_s_shp :> ShpFile(GeoDataFrame(crs, b)))
    /\ nc_dataset = None
    /\ handles = <<>>
    /\ history = <<>>
    /\ variable_list = <<>>
    /\ figure = "blank"
    /\ last = NoEffects
    /\ closed = FALSE
    /\ request = NoRequest

NextCRS == LoadFile(p_s_shp)

SpecCRS == InitCRS /\ [][NextCRS]_vars

(***************************************************************************)
(* Properties.                                                             *)
(***************************************************************************)
\* the last operation was a gridded load that found a dataset open and failed
FailedNcLoadOverOpen ==
    /\ last.op = "load_file"
    /\ Lower(splitext(last.path)) = ext_nc
    /\ last.fail # "none"
    /\ last.nc_before # None

\* C1, as claimed: after a load_nc_file that fails while a dataset is open, the
\* dataset that was open before is still the current one and is still open.
C1_FailedLoadKeepsPrevious ==
    FailedNcLoadOverOpen =>
        /\ nc_dataset = last.nc_before
        /\ handles[last.nc_before].isopen

\* C1, amended: after a load_nc_file that fails while a dataset is open, the
\* dataset that was open before has been closed and nc_dataset is None.
C1_FailedLoadDropsPrevious ==
    FailedNcLoadOverOpen =>
        /\ nc_dataset = None
        /\ ~handles[last.nc_before].isopen

\* C1, witness: a load failed after its Dataset was opened, over an open dataset
C1_Witness ==
    /\ FailedNcLoadOverOpen
    /\ last.fail = "metadata"
    /\ Len(handles) = 2

\* C2, as claimed: until the window closes, every open dataset handle is the one
\* nc_dataset refers to (so at most one is open and none is left unreferenced).
C2_OnlyTheCurrentHandleIsOpen ==
    ~closed => \A h \in OpenHandles : h = nc_dataset

\* the last operation was a call of the reducer
ReducerRan == last.op = "plot_high_dim_variable_with_coords"

\* the positions of dimension d in the dimension list of the reduced variable
Occurrences(d) == {i \in 1..Len(last.dimensions) : last.dimensions[i] = d}

\* the size of dimension d in the open dataset
SizeOf(d) == DatasetOf(nc_dataset).dims[d]

\* the dimensions of the reduced variable other than x_dim and y_dim
OtherDims ==
    {last.dimensions[i] : i \in 1..Len(last.dimensions)} \ {last.x_dim, last.y_dim}

\* index_map holds an index of [0, size) for every other dimension
CompleteInRange ==
    \A d \in OtherDims :
        /\ d \in DOMAIN last.index_map
        /\ 0 <= last.index_map[d]
        /\ last.index_map[d] < SizeOf(d)

\* the coordinate variables named x_dim and y_dim exist and are 1-D
OneDimCoords ==
    /\ HasVariable(DatasetOf(nc_dataset), last.x_dim)
    /\ HasVariable(DatasetOf(nc_dataset), last.y_dim)
    /\ Len(CoordShape(DatasetOf(nc_dataset), last.x_dim)) = 1
    /\ Len(CoordShape(DatasetOf(nc_dataset), last.y_dim)) = 1

\* x_dim and y_dim are two different dimensions of the variable
TwoSpatialDims ==
    /\ last.x_dim # last.y_dim
    /\ Occurrences(last.x_dim) # {}
    /\ Occurrences(last.y_dim) # {}

\* x_dim and y_dim each name exactly one axis of the variable
EachOnce ==
    /\ Cardinality(Occurrences(last.x_dim)) = 1
    /\ Cardinality(Occurrences(last.y_dim)) = 1

\* the sizes of x_dim and y_dim, the one that comes first in the variable first
SpatialShape ==
    IF \E i \in Occurrences(last.x_dim) : \A j \in Occurrences(last.y_dim) : i < j
    THEN <<SizeOf(last.x_dim), SizeOf(last.y_dim)>>
    ELSE <<SizeOf(last.y_dim), SizeOf(last.x_dim)>>

\* C3, as claimed: whenever the reducer built a mesh from 1-D coordinate
\* variables, for two distinct dimensions of the variable in either order, the
\* mesh has the shape of the 2-D slice.
C3_MeshHasSliceShape ==
    (/\ ReducerRan /\ TwoSpatialDims /\ EachOnce /\ CompleteInRange
     /\ OneDimCoords /\ last.has_mesh) =>
        last.mesh_shape = last.data_shape

\* C4, as claimed: a variable of rank > 2 reduced over two distinct dimensions of
\* its own, with an in-range index for every other dimension, yields a slice of
\* rank 2 whose axes are those of x_dim and y_dim in the variable's order.
C4_ReduceYieldsSpatialSlice ==
    (ReducerRan /\ Len(last.dimensions) > 2 /\ TwoSpatialDims /\ CompleteInRange) =>
        /\ last.has_data
        /\ Len(last.data_shape) = 2
        /\ last.data_shape = SpatialShape

\* C4, amended: the same, for x_dim and y_dim that each occur exactly once in
\* the variable's dimension list.
C4_ReduceYieldsSpatialSliceOnce ==
    (ReducerRan /\ Len(last.dimensions) > 2 /\ TwoSpatialDims /\ EachOnce /\ CompleteInRange) =>
        /\ last.has_data
        /\ Len(last.data_shape) = 2
        /\ last.data_shape = SpatialShape

\* C4, witness: temp(time, lat, lon) reduced with x = lon, y = lat, time = 1
C4_Witness ==
    /\ ReducerRan
    /\ last.dimensions = <<n_time, n_lat, n_lon>>
    /\ last.x_dim = n_lon
    /\ last.y_dim = n_lat
    /\ last.index_map = (n_time :> 1)
    /\ last.data_shape = <<1, 2>>

\* index_map lacks an entry for some other dimension, or holds an index
\* outside [0, size) for one
IncompleteOrOutOfRange ==
    \E d \in OtherDims :
        \/ d \notin DOMAIN last.index_map
        \/ last.index_map[d] < 0
        \/ last.index_map[d] >= SizeOf(d)

\* C5, as claimed: a reduction over two distinct dimensions of the variable whose
\* index_map lacks an entry or holds an index outside [0, size) for another
\* dimension ends in an error, with no slice and no plot.
C5_BadIndexMapIsRefused ==
    (/\ ReducerRan /\ Len(last.dimensions) > 2 /\ TwoSpatialDims /\ EachOnce
     /\ IncompleteOrOutOfRange) =>
        /\ last.err \in {"ShapeError", "PlotFailed:KeyError", "PlotFailed:IndexError"}
        /\ ~last.has_data
        /\ ~last.cleared
        /\ ~last.drawn

\* what a reduction with x_dim = y_dim and valid indices gives when it ends in
\* ShapeError: the produced shape, the figure untouched
ShapeErrorReported ==
    /\ last.err = "ShapeError"
    /\ last.has_data
    /\ Len(last.data_shape) # 2
    /\ last.data_shape = [i \in 1..Cardinality(Occurrences(last.x_dim)) |-> SizeOf(last.x_dim)]
    /\ ~last.cleared
    /\ ~last.drawn
    /\ figure = "blank"

\* C6, as claimed: a reduction asked with x_dim = y_dim (and an in-range index
\* for every other dimension) reports ShapeError with the produced shape, which
\* is not 2-D, and leaves the figure alone.
C6_SameAxisIsShapeError ==
    (ReducerRan /\ last.x_dim = last.y_dim /\ CompleteInRange) => ShapeErrorReported

\* C6, amended: the same, for an x_dim that does not occur twice in the
\* variable's dimension list.
C6_SameAxisIsShapeErrorUnlessTwice ==
    (/\ ReducerRan /\ last.x_dim = last.y_dim /\ CompleteInRange
     /\ Cardinality(Occurrences(last.x_dim)) # 2) => ShapeErrorReported

\* C6, witness: temp(time, lat, lon) reduced with x = y = lon gives a 1-D slice
C6_Witness ==
    /\ ReducerRan
    /\ last.dimensions = <<n_time, n_lat, n_lon>>
    /\ last.x_dim = n_lon
    /\ last.y_dim = n_lon
    /\ last.index_map = (n_time :> 0) @@ (n_lat :> 0)
    /\ last.err = "ShapeError"
    /\ last.data_shape = <<2>>

\* the last operation was a vector load that got as far as plot_shp_data
ShpPlotRan ==
    /\ last.op = "load_file"
    /\ Lower(splitext(last.path)) = ext_shp
    /\ last.fail = "none"

\* to_epsg() raised or returned no code
NoEpsgCode == last.crs.to_epsg \in {"raises", "none"}

\* C7, as claimed: a present, projected descriptor without an EPSG code ends in
\* the UnsupportedProjected error, with no projection resolved and nothing drawn.
C7_ProjectedWithoutEpsgIsUnsupported ==
    (ShpPlotRan /\ last.crs.present /\ ~last.crs.is_geographic /\ NoEpsgCode) =>
        /\ last.err = "UnsupportedProjected"
        /\ last.cartopy_crs = NoProjection
        /\ ~last.drawn
        /\ figure = "blank"

\* C8, as claimed: a present, geographic descriptor without an EPSG code resolves
\* to PlateCarree, emits the advisory note and is plotted without an error.
C8_GeographicWithoutEpsgFallsBack ==
    (ShpPlotRan /\ last.crs.present /\ last.crs.is_geographic /\ NoEpsgCode) =>
        /\ last.cartopy_crs = PlateCarree
        /\ last.note
        /\ last.err = "none"
        /\ last.drawn

\* C9: without a CRS descriptor the plot ends in the Missing error and nothing
\* is drawn; a descriptor with an EPSG code that cartopy can build is resolved
\* to that EPSG projection, without the geographic fallback, and drawn.
C9_MissingFirstThenEpsg ==
    ShpPlotRan =>
        /\ ~last.crs.present =>
              /\ last.err = "MissingCRS"
              /\ last.cartopy_crs = NoProjection
              /\ ~last.drawn
              /\ figure = "blank"
        /\ (last.crs.present /\ last.crs.to_epsg = "code" /\ last.crs.builds) =>
              /\ last.cartopy_crs = [kind |-> "epsg", code |-> last.crs.code]
              /\ ~last.note
              /\ last.err = "none"
              /\ last.drawn

\* C9, witness: a geographic descriptor with a usable EPSG code took the EPSG
\* branch although the fallback was open to it
C9_Witness ==
    /\ ShpPlotRan
    /\ last.crs.present
    /\ last.crs.is_geographic
    /\ last.crs.to_epsg = "code"
    /\ last.crs.builds
    /\ last.cartopy_crs.kind = "epsg"
    /\ last.drawn

\* C10: whenever plot_shp_data draws, the extent's crs and the draw call's
\* transform are the one resolved projection, and the extent is
\* (minx, maxx, miny, maxy) of the bounds (minx, miny, maxx, maxy).
C10_OneProjectionAndExtent ==
    (ShpPlotRan /\ last.drawn) =>
        LET b == disk[last.path].gdf.total_bounds
        IN /\ last.cartopy_crs # NoProjection
           /\ last.extent_crs = last.cartopy_crs
           /\ last.transform = last.cartopy_crs
           /\ last.extent = <<b[1], b[3], b[2], b[4]>>

\* C10, witness: a drawn vector plot whose bounds tell the two orders apart
C10_Witness ==
    /\ ShpPlotRan
    /\ last.drawn
    /\ disk[last.path].gdf.total_bounds = <<-1, 0, 1, 1>>
    /\ last.extent = <<-1, 1, 0, 1>>

\* the last operation was plot_nc_variable on a variable of rank 2
ResolverRan ==
    /\ last.op = "plot_nc_variable"
    /\ Len(last.dimensions) = 2

\* C11, as claimed: whenever a rank-2 variable none of whose dimensions has a
\* variable of the same name is selected, the outcome is CoordinatesNotFound,
\* nothing is drawn and the plot area is empty afterwards.
C11_NoCoordinatesLeavesPlotEmpty ==
    (/\ ResolverRan
     /\ \A i \in 1..2 : ~HasVariable(DatasetOf(nc_dataset), last.dimensions[i])) =>
        /\ last.err = "CoordinatesNotFound"
        /\ ~last.drawn
        /\ figure = "blank"

\* the positions of the selected variable's dimensions whose lower-cased name
\* contains a pattern of the role and that have a variable of the same name
Candidates(names) ==
    {i \in 1..Len(last.dimensions) :
        /\ \E name \in names : Contains(Lower(last.dimensions[i]), name)
        /\ HasVariable(DatasetOf(nc_dataset), last.dimensions[i])}

\* the role is bound to the dimension at the last candidate position, and is
\* left unbound, with the coordinates-not-found outcome, when there is none
BoundToLast(bound, names) ==
    IF Candidates(names) = {}
    THEN /\ bound = <<>>
         /\ last.err = "CoordinatesNotFound"
         /\ ~last.cleared
         /\ ~last.drawn
    ELSE \E i \in Candidates(names) :
            /\ \A j \in Candidates(names) : j <= i
            /\ bound = last.dimensions[i]

\* C12: find_nc_coords binds each role to the last dimension, in the variable's
\* order, whose lower-cased name contains a pattern of the role and that has a
\* variable of the same name; dimensions without one are skipped; a role
\* without such a dimension stays unbound and the plot ends in coordinates not
\* found.
C12_LastMatchWins ==
    ResolverRan =>
        /\ BoundToLast(last.x_dim, possible_lon_names)
        /\ BoundToLast(last.y_dim, possible_lat_names)

\* C12, witness: field(lon, xlat) with variables lon and xlat: the longitude
\* role went to xlat, the later of its two matches
C12_Witness ==
    /\ ResolverRan
    /\ last.var = n_field
    /\ last.dimensions = <<n_lon, n_xlat>>
    /\ HasVariable(DatasetOf(nc_dataset), n_lon)
    /\ HasVariable(DatasetOf(nc_dataset), n_xlat)
    /\ last.x_dim = n_xlat

\* C13, as claimed: find_nc_coords never binds one dimension to both the
\* longitude / X role and the latitude / Y role.
C13_OneRolePerDimension ==
    ResolverRan => ~(last.x_dim # <<>> /\ last.x_dim = last.y_dim)

\* the two dimensions of the selected variable were resolved, one to each role,
\* to coordinate variables that are 1-D
ResolvedToOneDim ==
    /\ ResolverRan
    /\ last.x_dim # <<>>
    /\ last.y_dim # <<>>
    /\ last.x_dim # last.y_dim
    /\ {last.x_dim, last.y_dim} = {last.dimensions[1], last.dimensions[2]}
    /\ Len(CoordShape(DatasetOf(nc_dataset), last.x_dim)) = 1
    /\ Len(CoordShape(DatasetOf(nc_dataset), last.y_dim)) = 1

\* C14, as claimed: for a rank-2 variable whose dimensions resolve to 1-D
\* longitude and latitude variables, in either order, the mesh has shape
\* (len(y_coords), len(x_coords)), its element (i, j) is (x_coords[j],
\* y_coords[i]), and it has the shape of the variable's data.
C14_MeshAlignedWithData ==
    ResolvedToOneDim =>
        LET x_coords == ReadAll(DatasetOf(nc_dataset), last.x_dim)
            y_coords == ReadAll(DatasetOf(nc_dataset), last.y_dim)
        IN /\ last.has_mesh
           /\ last.mesh_shape = <<Len(y_coords), Len(x_coords)>>
           /\ Len(last.lon) = Len(y_coords)
           /\ Len(last.lat) = Len(y_coords)
           /\ \A i \in 1..Len(y_coords) :
                 /\ Len(last.lon[i]) = Len(x_coords)
                 /\ Len(last.lat[i]) = Len(x_coords)
                 /\ \A j \in 1..Len(x_coords) :
                       /\ last.lon[i][j] = x_coords[j]
                       /\ last.lat[i][j] = y_coords[i]
           /\ last.mesh_shape = last.data_shape

\* C15, as claimed: a load_file that ends in an error (OpenFailure, a CRS error
\* or UnsupportedFormat) adds nothing to the history.
C15_HistoryOnlyOnSuccess ==
    [][(last'.op = "load_file" /\ last'.err # "none") => history' = history]_vars

\* C16: load_file hands a path whose lower-cased extension is .nc to the gridded
\* loader and one whose lower-cased extension is .shp to the vector loader; any
\* other path ends in UnsupportedFormat with no loader invoked and with
\* nc_dataset and the history as they were.
C16_DispatchOnExtension ==
    [][last'.op = "load_file" =>
          LET ext == Lower(splitext(last'.path))
          IN /\ ext = ext_nc => last'.loader = "load_nc_file"
             /\ ext = ext_shp => last'.loader = "load_shp_file"
             /\ ext \notin {ext_nc, ext_shp} =>
                   /\ last'.loader = "none"
                   /\ last'.err = "UnsupportedFormat"
                   /\ nc_dataset' = nc_dataset
                   /\ history' = history]_vars

\* C16, witness: d/b.NC, spelled in capitals, was opened by the gridded loader
\* as the second file of the session
C16_Witness ==
    /\ last.op = "load_file"
    /\ last.path = p_b_NC
    /\ last.loader = "load_nc_file"
    /\ last.err = "none"
    /\ nc_dataset = 2
    /\ history = <<p_a_nc, p_b_NC>>

\* C17, as claimed: every selection the dialog hands to the reducer has an x_dim
\* that differs from y_dim, both of them dimensions of the variable, and only
\* indices of [0, size) in index_map.
C17_SelectionIsSpatialAxisBinding ==
    ReducerRan =>
        /\ last.x_dim # last.y_dim
        /\ Occurrences(last.x_dim) # {}
        /\ Occurrences(last.y_dim) # {}
        /\ \A d \in DOMAIN last.index_map :
              0 <= last.index_map[d] /\ last.index_map[d] < SizeOf(d)

\* the last operation was a gridded load that succeeded
NcLoadSucceeded ==
    /\ last.op = "load_file"
    /\ last.loader = "load_nc_file"
    /\ last.err = "none"

\* the positions, in the open dataset, of the variables of rank >= 2
RankTwoUp ==
    {i \in 1..Len(DatasetOf(nc_dataset).vars) :
        Len(DatasetOf(nc_dataset).vars[i].dimensions) >= 2}

\* C18: after a successful gridded load the variable list holds one item for
\* each variable of rank >= 2 of the dataset, in the dataset's order, and no
\* other item.
C18_ListIsRankTwoUpInOrder ==
    NcLoadSucceeded =>
        /\ Len(variable_list) = Cardinality(RankTwoUp)
        /\ \A k \in 1..Len(variable_list) :
              \E i \in RankTwoUp :
                 /\ Cardinality({j \in RankTwoUp : j <= i}) = k
                 /\ variable_list[k] =
                       ItemText(DatasetOf(nc_dataset).vars[i].name,
                                VarShape(DatasetOf(nc_dataset), DatasetOf(nc_dataset).vars[i]))

\* C18, witness: a file with the scalar crs, the 1-D Lat, the 2-D lon, field and
\* raw was loaded: the list holds lon, field and raw
C18_Witness ==
    /\ NcLoadSucceeded
    /\ Len(DatasetOf(nc_dataset).vars) = 5
    /\ HasVariable(DatasetOf(nc_dataset), n_Lat)
    /\ CoordShape(DatasetOf(nc_dataset), n_Lat) = <<2>>
    /\ HasVariable(DatasetOf(nc_dataset), n_lon)
    /\ Len(variable_list) = 3
    /\ variable_list[1] = ItemText(n_lon, <<2, 3>>)
    /\ FirstToken(variable_list[2]) = n_field
    /\ variable_list[3] = ItemText(n_raw, <<2, 2>>)

\* the step is a reduction that stopped with the given error and touched
\* neither the figure nor nc_dataset nor the history
StoppedWith(err) ==
    /\ last'.err = err
    /\ ~last'.cleared
    /\ ~last'.drawn
    /\ ~last'.has_mesh
    /\ figure' = figure
    /\ nc_dataset' = nc_dataset
    /\ history' = history

\* C19: once the reducer holds a 2-D slice, a missing variable named x_dim or
\* y_dim ends in coordinates not found; otherwise two 1-D arrays give the
\* outer-product mesh; otherwise two arrays of the slice's shape are used as
\* they are; otherwise the outcome is CoordinateMismatch.  The failing outcomes
\* leave the figure, nc_dataset and the history alone.
C19_CoordinateChecksInOrder ==
    [][(/\ last'.op = "plot_high_dim_variable_with_coords"
        /\ last'.has_data
        /\ Len(last'.data_shape) = 2) =>
          LET ds == DatasetOf(nc_dataset)
              x_dim == last'.x_dim
              y_dim == last'.y_dim
          IN IF ~HasVariable(ds, x_dim) \/ ~HasVariable(ds, y_dim)
             THEN StoppedWith("CoordinatesNotFound")
             ELSE IF Len(CoordShape(ds, x_dim)) = 1 /\ Len(CoordShape(ds, y_dim)) = 1
             THEN /\ last'.has_mesh
                  /\ last'.cleared
                  /\ last'.mesh_shape = <<CoordShape(ds, y_dim)[1], CoordShape(ds, x_dim)[1]>>
                  /\ \A i \in 1..last'.mesh_shape[1] :
                        \A j \in 1..last'.mesh_shape[2] :
                           /\ last'.lon[i][j] = <<x_dim, j>>
                           /\ last'.lat[i][j] = <<y_dim, i>>
                  /\ last'.err \in {"none", "PlotFailed:TypeError"}
             ELSE IF /\ CoordShape(ds, x_dim) = last'.data_shape
                     /\ CoordShape(ds, y_dim) = last'.data_shape
             THEN /\ last'.has_mesh
                  /\ last'.cleared
                  /\ last'.mesh_shape = last'.data_shape
                  /\ last'.lon = ReadAll(ds, x_dim)
                  /\ last'.lat = ReadAll(ds, y_dim)
                  /\ last'.err = "none"
                  /\ last'.drawn
             ELSE StoppedWith("CoordinateMismatch")]_vars

\* C19, witness: with a plot of temp on the canvas, a selection whose coordinate
\* variables are a 1-D and a 2-D array ended in CoordinateMismatch and the plot
\* is still there
C19_Witness ==
    /\ ReducerRan
    /\ last.err = "CoordinateMismatch"
    /\ last.x_dim = n_lon
    /\ last.y_dim = n_time
    /\ Len(CoordShape(DatasetOf(nc_dataset), n_lon)) = 2
    /\ figure = "plot_high_dim_variable_with_coords"

\* the last operation was the selection of an item of the variable list
SelectionRan ==
    last.op \in {"on_variable_selected", "plot_nc_variable",
                 "plot_high_dim_variable_with_coords"}

\* C20, as claimed: the name on_variable_selected parses from a listed item is
\* the name of the variable the item was made for, so the selection finds a
\* variable of the open dataset and no exception leaves the handler.
C20_ItemTextRoundTrip ==
    SelectionRan =>
        /\ last.unhandled = "none"
        /\ HasVariable(DatasetOf(nc_dataset), last.var)
        /\ \E k \in 1..Len(variable_list) :
              variable_list[k] =
                  ItemText(last.var, CoordShape(DatasetOf(nc_dataset), last.var))

\* the last operation was one that is to leave the variable list empty: the
\* load of a vector file, of an unsupported file, a gridded load that failed,
\* or display_history
ListEmptyingRan ==
    \/ /\ last.op = "load_file"
       /\ \/ last.loader = "load_shp_file"
          \/ last.loader = "none"
          \/ last.loader = "load_nc_file" /\ last.err # "none"
    \/ last.op = "display_history"

\* C21: while the window is open, a non-empty variable list goes with an open
\* dataset in nc_dataset, and every entry is the item of a variable of rank
\* >= 2 of that dataset; after the load of a vector file, of an unsupported
\* file, a failed gridded load, or display_history, the list is empty.
C21_ListGoesWithOpenDataset ==
    ~closed =>
        /\ variable_list # <<>> =>
              /\ nc_dataset # None
              /\ handles[nc_dataset].isopen
              /\ \A k \in 1..Len(variable_list) :
                    \E i \in RankTwoUp :
                       variable_list[k] =
                           ItemText(DatasetOf(nc_dataset).vars[i].name,
                                    VarShape(DatasetOf(nc_dataset), DatasetOf(nc_dataset).vars[i]))
        /\ ListEmptyingRan => variable_list = <<>>

\* C21, witness: after a gridded load that failed and left its handle behind,
\* d/b.NC was loaded and one of its two listed variables was selected
C21_Witness ==
    /\ ~closed
    /\ SelectionRan
    /\ Len(variable_list) = 2
    /\ nc_dataset = 2
    /\ handles[1].path = p_a_nc
    /\ handles[1].isopen
    /\ history = <<p_a_nc, p_b_NC>>

====
